---- MODULE Spec2Model ----
(***************************************************************************)
(* Sermon ingestion: the podcast-feed scraper (background_scraper.py, run  *)
(* by the 20-minute worker thread of app.py and on demand as a script),    *)
(* the one-off initial scraper (InitialScraper/sermon_scraper.py), the     *)
(* SQLite table `sermons` and the audio directory they share.              *)
(*                                                                         *)
(* A pass (one execution of process_sermons) is cut into one step per      *)
(* access to the shared store or directory, so that two passes interleave  *)
(* exactly where two OS processes can.                                     *)
(***************************************************************************)
EXTENDS Naturals, Sequences, FiniteSets

\* ------------------------------------------------------------------ bounds

\* Number of items the podcast site can offer; a feed is any sub-list of them.
NItems == 3

\* The system clock (time.strftime) shows one of the readings 0..MaxClock.
MaxClock == 1

\* ------------------------------------------------------- program constants

AUDIO_DIR == "/data/audiofiles"

\* An element the <item> does not have (find() returns None).
NoElem == "<absent>"

\* The title of a candidate whose <title> element has no text: Python's None.
None == "<None>"

\* The triggers: the worker thread of app.py, and a scraper run as a script.
Procs == {"worker", "script"}

\* ----------------------------------------------------------------- inputs

\* An audio URL https://tcfky.com/media/<name>[?<query>].
Url(name, query) == [name |-> name, query |-> query]

\* No audio/mpeg enclosure, or one with an empty url: `if audio_url` fails.
NoUrl == Url("", "")

\* The <item> elements the site can serve: title text (or no <title>), the
\* audio/mpeg enclosure url (or none), the texts of the <category> elements
\* ("": a <category> without text).
Item(i) ==
    CASE i = 1 -> [title |-> "Sermon A", enclosure |-> Url("a.mp3", ""),
                   categories |-> <<"">>]
      [] i = 2 -> [title |-> "Sermon B", enclosure |-> Url("a.mp3", "v=2"),
                   categories |-> <<>>]
      [] i = 3 -> [title |-> "Sermon A", enclosure |-> Url("b.mp3", ""),
                   categories |-> <<"Faith", "Hope">>]
      [] i = 4 -> [title |-> "Sermon C", enclosure |-> Url("c.mp3", ""),
                   categories |-> <<"Faith">>]
      [] i = 5 -> [title |-> NoElem, enclosure |-> Url("d.mp3", ""),
                   categories |-> <<"Hope">>]
      [] i = 6 -> [title |-> "", enclosure |-> Url("e.mp3", ""),
                   categories |-> <<>>]
      [] OTHER -> [title |-> "Sermon D", enclosure |-> NoUrl,
                   categories |-> <<>>]

\* The feed documents: every sub-list of the items, in the site's order.
RECURSIVE SubList(_, _)
SubList(S, i) ==
    IF i > NItems THEN <<>>
    ELSE IF i \in S THEN <<Item(i)>> \o SubList(S, i + 1)
    ELSE SubList(S, i + 1)

Feeds(n) == {SubList(S, 1) : S \in SUBSET (1..n)}

\* -------------------------------------------------------- pure functions

\* os.path.basename(urlparse(audio_url).path): the last path segment, the
\* query string dropped.
file_name(audio_url) == audio_url.name

\* os.path.join(AUDIO_DIR, file_name)
file_path(audio_url) == <<AUDIO_DIR, file_name(audio_url)>>

RECURSIVE Join(_)
Join(texts) ==
    IF texts = <<>> THEN ""
    ELSE IF Len(texts) = 1 THEN Head(texts)
    ELSE Head(texts) \o ", " \o Join(Tail(texts))

NonEmpty(texts) == SelectSeq(texts, LAMBDA t : t # "")

\* The body of the parse loop for one <item>.
parse_item(item) ==
    [title      |-> IF item.title = NoElem THEN "Unknown Sermon"
                    ELSE IF item.title = "" THEN None
                    ELSE item.title,
     audio_url  |-> item.enclosure,
     categories |-> IF item.categories # <<>>
                    THEN Join(NonEmpty(item.categories))
                    ELSE "Uncategorized"]

\* fetch_podcast_feed on a document that was retrieved and parsed: one
\* candidate per item that has an audio enclosure.
RECURSIVE fetch_podcast_feed(_)
fetch_podcast_feed(items) ==
    IF items = <<>> THEN <<>>
    ELSE IF Head(items).enclosure # NoUrl
         THEN <<parse_item(Head(items))>> \o fetch_podcast_feed(Tail(items))
         ELSE fetch_podcast_feed(Tail(items))

AllPaths == {file_path(Item(i).enclosure) :
                i \in {j \in 1..NItems : Item(j).enclosure # NoUrl}}

\* ------------------------------------------------ the API: pure functions

\* os.getenv("API_KEY"): the server-held secret (app.py refuses to start
\* without one).
API_KEY == "secret"

\* request.authorization: None, or the username and password of a Basic
\* credential.
Auth(username, password) ==
    [present |-> TRUE, username |-> username, password |-> password]

NoAuth == [present |-> FALSE, username |-> "", password |-> ""]

Credentials ==
    {NoAuth, Auth("reader", API_KEY), Auth(API_KEY, "guess"), Auth("reader", "")}

\* Mutant: any credential is accepted.
require_api_key_any(auth) == auth.present

\* if not auth or auth.password != API_KEY: abort(401)
require_api_key(auth) == auth.present /\ auth.password = API_KEY

\* Texts are sequences of code points ('0' is 48, '-' 45, ' ' 32, ':' 58,
\* tab 9, newline 10, 'x' 120, no-break space 160, U+2028 8232, U+3000 12288,
\* fullwidth '0' 65296, Arabic-Indic '0' 1632).

\* The digits 0..9 given one by one, as the text of ASCII digits.
Ascii(digits) == [i \in 1..Len(digits) |-> 48 + digits[i]]

\* request.args.get("date"): a date parameter with the given text.
DateParam(text) == [given |-> text # <<>>, text |-> text]

\* The parameter <lead><y>-<m>-<d><tail>: y, m and d are digits given one by
\* one, lead and tail the code points before and after them.
DateText(lead, y, m, d, tail) ==
    DateParam(lead \o Ascii(y) \o <<45>> \o Ascii(m) \o <<45>> \o Ascii(d)
                  \o tail)

\* No date parameter (or an empty one): `if not date_param`.
NoDate == DateParam(<<>>)

\* 2025-01-01, 2025-01-15, "\t2025-1-15 \n", "\u30002025-01-15\xa0\u2028",
\* "2025-01-15 x", 2025-02-01, 0999-01-01, 2025-02-30, then the year in
\* fullwidth digits and a blank before the day, "2025-01-1" followed by an
\* Arabic-Indic five, and 2025-01-15 with a fullwidth zero in the month.
DateParams ==
    {NoDate,
     DateText(<<>>, <<2, 0, 2, 5>>, <<0, 1>>, <<0, 1>>, <<>>),
     DateText(<<>>, <<2, 0, 2, 5>>, <<0, 1>>, <<1, 5>>, <<>>),
     DateText(<<9>>, <<2, 0, 2, 5>>, <<1>>, <<1, 5>>, <<32, 10>>),
     DateText(<<12288>>, <<2, 0, 2, 5>>, <<0, 1>>, <<1, 5>>, <<160, 8232>>),
     DateText(<<>>, <<2, 0, 2, 5>>, <<0, 1>>, <<1, 5>>, <<32, 120>>),
     DateText(<<>>, <<2, 0, 2, 5>>, <<0, 2>>, <<0, 1>>, <<>>),
     DateText(<<>>, <<0, 9, 9, 9>>, <<0, 1>>, <<0, 1>>, <<>>),
     DateText(<<>>, <<2, 0, 2, 5>>, <<0, 2>>, <<3, 0>>, <<>>),
     DateParam(<<65298, 65296, 65298, 65301, 45, 48, 49, 45, 32, 53>>),
     DateParam(<<50, 48, 50, 53, 45, 48, 49, 45, 49, 1637>>),
     DateParam(<<50, 48, 50, 53, 45, 65296, 49, 45, 49, 53>>)}

\* The code points str.strip() removes: those for which str.isspace() holds.
Whitespace ==
    {9, 10, 11, 12, 13, 28, 29, 30, 31, 32, 133, 160, 5760}
        \cup (8192..8202) \cup {8232, 8233, 8239, 8287, 12288}

\* str.lstrip(): the run of white space at the start of the text is removed.
RECURSIVE lstrip(_)
lstrip(text) ==
    IF text # <<>> /\ Head(text) \in Whitespace THEN lstrip(Tail(text))
    ELSE text

\* str.rstrip(): the run of white space at the end of the text is removed.
RECURSIVE rstrip(_)
rstrip(text) ==
    IF text # <<>> /\ text[Len(text)] \in Whitespace
    THEN rstrip(SubSeq(text, 1, Len(text) - 1))
    ELSE text

\* str.strip()
strip(text) == rstrip(lstrip(text))

\* The code point of the zero of every run of ten decimal digits of Unicode
\* (14.0, the character database of Python 3.11): the characters \d matches
\* in a str pattern and int() converts.
DecimalZeros ==
    {48, 1632, 1776, 1984, 2406, 2534, 2662, 2790, 2918, 3046, 3174, 3302,
     3430, 3558, 3664, 3792, 3872, 4160, 4240, 6112, 6160, 6470, 6608, 6784,
     6800, 6992, 7088, 7232, 7248, 42528, 43216, 43264, 43472, 43504, 43600,
     44016, 65296, 66720, 68912, 69734, 69872, 69942, 70096, 70384, 70736,
     70864, 71248, 71360, 71472, 71904, 72016, 72784, 73040, 73120, 92768,
     92864, 93008, 120782, 120792, 120802, 120812, 120822, 123200, 123632,
     125264, 130032}

\* \d: the code point is a decimal digit.
isdecimal(c) == \E z \in DecimalZeros : c \in z..(z + 9)

\* The value of a decimal digit.
decimal(c) == c - (CHOOSE z \in DecimalZeros : c \in z..(z + 9))

\* int(text) for a text of decimal digits, with or without blanks around
\* them.
RECURSIVE Val(_)
Val(text) ==
    IF text = <<>> THEN 0
    ELSE IF text[Len(text)] \in Whitespace
    THEN Val(SubSeq(text, 1, Len(text) - 1))
    ELSE 10 * Val(SubSeq(text, 1, Len(text) - 1)) + decimal(text[Len(text)])

DaysIn(y, m) ==
    IF m \in {4, 6, 9, 11} THEN 30
    ELSE IF m # 2 THEN 31
    ELSE IF y % 4 = 0 /\ (y % 100 # 0 \/ y % 400 = 0) THEN 29 ELSE 28

\* The directive %Y as a regular expression: \d\d\d\d
match_Y(text) == Len(text) = 4 /\ \A i \in 1..4 : isdecimal(text[i])

\* The directive %m: 1[0-2]|0[1-9]|[1-9]
match_m(text) ==
    \/ Len(text) = 2 /\ text[1] = 49 /\ text[2] \in 48..50
    \/ Len(text) = 2 /\ text[1] = 48 /\ text[2] \in 49..57
    \/ Len(text) = 1 /\ text[1] \in 49..57

\* The directive %d: 3[0-1]|[1-2]\d|0[1-9]|[1-9]| [1-9]
match_d(text) ==
    \/ Len(text) = 2 /\ text[1] = 51 /\ text[2] \in 48..49
    \/ Len(text) = 2 /\ text[1] \in 49..50 /\ isdecimal(text[2])
    \/ Len(text) = 2 /\ text[1] = 48 /\ text[2] \in 49..57
    \/ Len(text) = 1 /\ text[1] \in 49..57
    \/ Len(text) = 2 /\ text[1] = 32 /\ text[2] \in 49..57

\* datetime.strptime(date_param.strip(), "%Y-%m-%d"): the stripped text has
\* to match \d\d\d\d-<%m>-<%d> from its first to its last character (the
\* month has two characters when the second '-' is the eighth character, one
\* when it is the seventh) and to name a date of the calendar from year 1
\* on; otherwise ValueError (ok is FALSE).
strptime(p) ==
    LET s == strip(p.text)
        n == Len(s)
        k == IF n >= 8 /\ s[8] = 45 THEN 8 ELSE 7
        Y == IF n >= 4 THEN SubSeq(s, 1, 4) ELSE <<>>
        mm == IF n >= k THEN SubSeq(s, 6, k - 1) ELSE <<>>
        dd == IF n >= k THEN SubSeq(s, k + 1, n) ELSE <<>>
        matched == /\ n > k
                   /\ s[5] = 45
                   /\ s[k] = 45
                   /\ match_Y(Y)
                   /\ match_m(mm)
                   /\ match_d(dd)
        y == IF matched THEN Val(Y) ELSE 0
        m == IF matched THEN Val(mm) ELSE 0
        d == IF matched THEN Val(dd) ELSE 0
        ok == matched /\ y >= 1 /\ d <= DaysIn(y, m)
    IN  [ok |-> ok, y |-> y, m |-> m, d |-> d, H |-> 0, M |-> 0, S |-> 0]

\* The decimal digits of a number, as text.
RECURSIVE Digits(_)
Digits(n) ==
    IF n < 10 THEN <<48 + n>> ELSE Digits(n \div 10) \o <<48 + (n % 10)>>

Pad2(n) == <<48 + (n \div 10), 48 + (n % 10)>>

\* strftime("%Y-%m-%d %H:%M:%S") as the C library of the container formats
\* it: %Y is the year without padding, the other fields have two digits.
strftime(dt) ==
    Digits(dt.y) \o <<45>> \o Pad2(dt.m) \o <<45>> \o Pad2(dt.d) \o <<32>>
        \o Pad2(dt.H) \o <<58>> \o Pad2(dt.M) \o <<58>> \o Pad2(dt.S)

\* The system clock at reading t.
Clock(t) == [y |-> 2025, m |-> t + 1, d |-> 1, H |-> 10, M |-> 0, S |-> 0]

\* The fetched_date text of a row: time.strftime at the clock reading the
\* row was built at.
fetched_date(r) == strftime(Clock(r.fetched_date))

\* a >= b for TEXT values under SQLite's BINARY collation: byte by byte,
\* then by length.
TextGE(a, b) ==
    LET n == IF Len(a) < Len(b) THEN Len(a) ELSE Len(b) IN
    \/ \E k \in 1..n : /\ a[k] > b[k]
                       /\ \A j \in 1..(k - 1) : a[j] = b[j]
    \/ /\ \A j \in 1..n : a[j] = b[j]
       /\ Len(a) >= Len(b)

\* SELECT * FROM sermons WHERE fetched_date >= ?
select_since(rows, query_date) ==
    LET text == [r \in rows |-> fetched_date(r)] IN
    {r \in rows : TextGE(text[r], query_date)}

\* ORDER BY fetched_date DESC: every order of the rows in which no row comes
\* before a row with a greater fetched_date.
order_by_desc(rows) ==
    LET text == [r \in rows |-> fetched_date(r)]
        n == Cardinality(rows)
    IN  {f \in [1..n -> rows] :
            /\ \A i, j \in 1..n : i # j => f[i] # f[j]
            /\ \A i, j \in 1..n : i < j => TextGE(text[f[i]], text[f[j]])}

\* The JSON object get_sermons builds for a row.
sermon_data(row) ==
    [id |-> row.id, title |-> row.title, audio_url |-> row.audio_url,
     categories |-> row.categories, fetched_date |-> fetched_date(row),
     download_url |-> <<"/download", row.id>>]

\* A request and the response to it.
Response(route, auth, date, sermon_id, status, queried, body, served) ==
    [route |-> route, auth |-> auth, date |-> date, sermon_id |-> sermon_id,
     status |-> status, queried |-> queried, body |-> body, served |-> served]

NoFile == <<>>

NoResp == Response("none", NoAuth, NoDate, 0, 0, FALSE, <<>>, NoFile)

\* ------------------------------------------------------------------ state

VARIABLES
    schema,    \* whether table sermons has been created
    db,        \* the rows of table sermons
    disk,      \* the audio directory: the paths at which a file exists
    nextId,    \* stands for uuid.uuid4(): the next fresh id
    pending,   \* the rows the initial scraper has inserted and not committed
    pc,        \* per trigger: where its pass stands ("idle": no pass)
    kind,      \* per trigger: which script's process_sermons it runs
    sermons,   \* per trigger: the candidate list of its pass
    idx,       \* per trigger: the loop position in sermons
    counts,    \* per trigger: exists_by_url and exists_by_path as read so far
    dret,      \* per trigger: which return of download_audio was taken
    prev,      \* history: the pass that just completed, until another begins
    rerun,     \* history, per trigger: its pass repeats the pass before it
               \* and no other pass has begun since
    handling,  \* the download request between its SELECT and its file read
    resp       \* the last request the API answered, with its response

vars == <<schema, db, disk, nextId, pending, pc, kind, sermons, idx, counts,
          dret, prev, rerun, handling, resp>>

cand(p) == sermons[p][idx[p]]

NoPass == [kind |-> "none", list |-> <<>>, settled |-> FALSE]

\* exists_by_url and exists_by_path before their SELECTs have run.
NoCounts == [url |-> FALSE, path |-> FALSE]

\* No download request is between its two reads.
NoRequest == [auth |-> NoAuth, sermon_id |-> 0, file_path |-> NoFile]

Init ==
    /\ schema = FALSE
    /\ db = {}
    /\ disk = {}
    /\ nextId = 1
    /\ pending = {}
    /\ pc = [p \in Procs |-> "idle"]
    /\ kind = [p \in Procs |-> "background"]
    /\ sermons = [p \in Procs |-> <<>>]
    /\ idx = [p \in Procs |-> 0]
    /\ counts = [p \in Procs |-> NoCounts]
    /\ dret = [p \in Procs |-> "none"]
    /\ prev = NoPass
    /\ rerun = [p \in Procs |-> "no"]
    /\ handling = NoRequest
    /\ resp = NoResp

\* ------------------------------------------------------- the metadata store

\* SELECT COUNT(*) FROM sermons WHERE audio_url = ?
exists_by_url(c) == \E r \in db : r.audio_url = c.audio_url

\* SELECT COUNT(*) FROM sermons WHERE file_path = ?
exists_by_path(c) == \E r \in db : r.file_path = file_path(c.audio_url)

\* Mutant: the title query finds nothing.
exists_by_title_off(c) == FALSE

\* SELECT COUNT(*) FROM sermons WHERE title = ? (a title that is None is
\* bound as NULL, which equals no row's title).
exists_by_title(c) == c.title # None /\ \E r \in db : r.title = c.title

\* Mutant: the title key is not consulted.
is_duplicate_no_title(by_url, by_path, by_title) == by_url \/ by_path

\* Mutant: only the audio_url key is consulted.
is_duplicate_url_only(by_url, by_path, by_title) == by_url

\* if exists_by_url or exists_by_path or exists_by_title
is_duplicate(by_url, by_path, by_title) == by_url \/ by_path \/ by_title

\* Mutant: a table whose only constraint is the primary key.
unique_violation_pk_only(rec) == \E r \in db : r.id = rec.id

\* audio_url TEXT NOT NULL UNIQUE, file_path TEXT NOT NULL UNIQUE, id PRIMARY KEY
unique_violation(rec) ==
    \E r \in db : \/ r.audio_url = rec.audio_url
                  \/ r.file_path = rec.file_path
                  \/ r.id = rec.id

\* title TEXT NOT NULL: a row whose title is None is refused.
not_null_violation(rec) == rec.title = None

\* The rows trigger p's connection has inserted and not committed: only the
\* initial scraper leaves any (its except clause does not roll back).
uncommitted(p) == IF kind[p] = "initial" THEN pending ELSE {}

\* The SELECTs of a connection also count its own uncommitted rows.
pending_by_url(p) ==
    \E r \in uncommitted(p) : r.audio_url = cand(p).audio_url

pending_by_path(p) ==
    \E r \in uncommitted(p) : r.file_path = file_path(cand(p).audio_url)

pending_by_title(p) ==
    \E r \in uncommitted(p) : r.title = cand(p).title

\* The constraints also hold against the connection's own uncommitted rows.
pending_violation(p, rec) ==
    \E r \in uncommitted(p) : \/ r.audio_url = rec.audio_url
                              \/ r.file_path = rec.file_path
                              \/ r.id = rec.id

\* The row process_sermons builds for a candidate at clock reading t; the id
\* is fresh among the stored and the uncommitted rows.
new_record(c, path, t) ==
    [id |-> nextId + Cardinality(pending), title |-> c.title,
     audio_url |-> c.audio_url, file_path |-> path,
     categories |-> c.categories, fetched_date |-> t]

\* ------------------------------------------------------------ the pass

\* Every candidate of the list matches a row of `store` by one of the keys.
AllSettled(store, list) ==
    \A i \in 1..Len(list) :
        \E r \in store : \/ r.audio_url = list[i].audio_url
                         \/ r.file_path = file_path(list[i].audio_url)
                         \/ r.title = list[i].title

OthersIdle(p) == \A q \in Procs \ {p} : pc[q] = "idle"

\* process_sermons returns (history: the pass is remembered while no other
\* pass is running). The initial scraper then closes its connection, which
\* drops the rows it has inserted and not committed.
end_pass(p, store) ==
    /\ pc' = [pc EXCEPT ![p] = "idle"]
    /\ idx' = [idx EXCEPT ![p] = 0]
    /\ kind' = [kind EXCEPT ![p] = "background"]
    /\ sermons' = [sermons EXCEPT ![p] = <<>>]
    /\ rerun' = [rerun EXCEPT ![p] = "no"]
    /\ pending' = IF kind[p] = "initial" THEN {} ELSE pending
    /\ prev' = IF OthersIdle(p)
               THEN [kind |-> kind[p], list |-> sermons[p],
                     settled |-> AllSettled(store, sermons[p])]
               ELSE NoPass

\* `continue`, or the end of the loop body: on to the next candidate; after
\* the last one process_sermons returns. `store` is the table and `pend` the
\* uncommitted rows after the step.
next_candidate_with(p, store, pend) ==
    /\ dret' = [dret EXCEPT ![p] = "none"]
    /\ counts' = [counts EXCEPT ![p] = NoCounts]
    /\ IF idx[p] < Len(sermons[p])
       THEN /\ idx' = [idx EXCEPT ![p] = @ + 1]
            /\ pc' = [pc EXCEPT ![p] = "check"]
            /\ pending' = pend
            /\ UNCHANGED <<kind, sermons, rerun, prev>>
       ELSE end_pass(p, store)

\* The same for a step that leaves the uncommitted rows as they are.
next_candidate(p, store) == next_candidate_with(p, store, pending)

Kinds(p) == IF p = "worker" THEN {"background"} ELSE {"background", "initial"}

\* sermon_scraper.py is started: at import initialize_database creates the
\* table (CREATE TABLE IF NOT EXISTS, committed) and the script goes on to
\* call process_sermons, which asks for the feed.
initialize_database(p) ==
    /\ pc[p] = "idle"
    /\ "initial" \in Kinds(p)
    /\ schema' = TRUE
    /\ pc' = [pc EXCEPT ![p] = "imported"]
    /\ kind' = [kind EXCEPT ![p] = "initial"]
    /\ UNCHANGED <<db, disk, nextId, pending, sermons, idx, counts, dret, prev,
                   rerun, handling, resp>>

\* The first lines of process_sermons: the feed has answered; an empty list
\* ends the pass at once (history: a pass that begins beside a running one
\* ends what rerun records of that one).
begin_pass(p, k, list) ==
    /\ IF list = <<>>
       THEN /\ pc' = [pc EXCEPT ![p] = "idle"]
            /\ kind' = [kind EXCEPT ![p] = "background"]
            /\ prev' = NoPass
            /\ UNCHANGED <<sermons, idx, rerun>>
       ELSE /\ pc' = [pc EXCEPT ![p] = "check"]
            /\ idx' = [idx EXCEPT ![p] = 1]
            /\ kind' = [kind EXCEPT ![p] = k]
            /\ sermons' = [sermons EXCEPT ![p] = list]
            /\ rerun' = [q \in Procs |->
                            IF q # p \/ list # prev.list \/ k # prev.kind
                            THEN "no"
                            ELSE IF prev.settled THEN "settled" ELSE "same"]
            /\ prev' = NoPass
    /\ UNCHANGED <<schema, db, disk, nextId, pending, counts, dret, handling,
                   resp>>

\* Mutant: a feed that cannot be fetched empties the audio directory.
source_unavailable_clear(p, k) ==
    /\ pc' = [pc EXCEPT ![p] = "idle"]
    /\ kind' = [kind EXCEPT ![p] = "background"]
    /\ prev' = [kind |-> "unavailable", list |-> <<>>, settled |-> FALSE]
    /\ disk' = {}
    /\ UNCHANGED <<schema, db, nextId, pending, sermons, idx, counts, dret,
                   rerun, handling, resp>>

\* The feed request raises, answers another status than 200, or the XML does
\* not parse: fetch_podcast_feed returns [] and process_sermons returns
\* (history: prev records the event).
source_unavailable(p, k) ==
    /\ pc' = [pc EXCEPT ![p] = "idle"]
    /\ kind' = [kind EXCEPT ![p] = "background"]
    /\ prev' = [kind |-> "unavailable", list |-> <<>>, settled |-> FALSE]
    /\ UNCHANGED <<schema, db, disk, nextId, pending, sermons, idx, counts,
                   dret, rerun, handling, resp>>

\* process_sermons is called (by the worker or background_scraper.py run as
\* a script, or by sermon_scraper.py once it is imported):
\* fetch_podcast_feed returns the candidates of the document served,
\* whichever passes are running, or the source is unavailable.
process_sermons(p) ==
    \E k \in Kinds(p) :
        /\ pc[p] = (IF k = "initial" THEN "imported" ELSE "idle")
        /\ \/ \E feed \in Feeds(NItems) :
                begin_pass(p, k, fetch_podcast_feed(feed))
           \/ source_unavailable(p, k)

\* The first SELECT of the duplicate check, by audio_url. Without the table
\* it raises and the loop's except clause moves on; so it does when it
\* raises for another reason (the database file stays locked by another
\* process past the busy timeout).
select_by_url(p) ==
    /\ pc[p] = "check"
    /\ UNCHANGED <<handling, resp>>
    /\ UNCHANGED <<schema, db, disk, nextId>>
    /\ \/ /\ schema
          /\ counts' = [counts EXCEPT ![p].url =
                            exists_by_url(cand(p)) \/ pending_by_url(p)]
          /\ pc' = [pc EXCEPT ![p] = "check_path"]
          /\ UNCHANGED <<pending, kind, sermons, idx, dret, prev, rerun>>
       \/ next_candidate(p, db)

\* The second SELECT, by file_path; it may raise as the first.
select_by_path(p) ==
    /\ pc[p] = "check_path"
    /\ UNCHANGED <<handling, resp>>
    /\ UNCHANGED <<schema, db, disk, nextId>>
    /\ \/ /\ counts' = [counts EXCEPT ![p].path =
                            exists_by_path(cand(p)) \/ pending_by_path(p)]
          /\ pc' = [pc EXCEPT ![p] = "check_title"]
          /\ UNCHANGED <<pending, kind, sermons, idx, dret, prev, rerun>>
       \/ next_candidate(p, db)

\* Mutant: the file at the derived path is removed before the duplicate test.
check_duplicate_remove_first(p) ==
    /\ pc[p] = "check_title"
    /\ UNCHANGED <<handling, resp>>
    /\ UNCHANGED <<schema, db, nextId>>
    /\ \/ IF is_duplicate(counts[p].url, counts[p].path,
                          exists_by_title(cand(p)) \/ pending_by_title(p))
          THEN /\ disk' = disk \ {file_path(cand(p).audio_url)}
               /\ next_candidate(p, db)
          ELSE /\ pc' = [pc EXCEPT ![p] =
                        IF kind[p] = "background" THEN "stale" ELSE "dl_exists"]
               /\ counts' = [counts EXCEPT ![p] = NoCounts]
               /\ UNCHANGED <<disk, pending, kind, sermons, idx, dret, prev,
                              rerun>>
       \/ /\ UNCHANGED disk
          /\ next_candidate(p, db)

\* The third SELECT, by title, and the duplicate test on the three counts:
\* a candidate one of them has counted is skipped. The SELECT may raise as
\* the others.
check_duplicate(p) ==
    /\ pc[p] = "check_title"
    /\ UNCHANGED <<handling, resp>>
    /\ UNCHANGED <<schema, db, disk, nextId>>
    /\ \/ IF is_duplicate(counts[p].url, counts[p].path,
                          exists_by_title(cand(p)) \/ pending_by_title(p))
          THEN next_candidate(p, db)
          ELSE /\ pc' = [pc EXCEPT ![p] =
                        IF kind[p] = "background" THEN "stale" ELSE "dl_exists"]
               /\ counts' = [counts EXCEPT ![p] = NoCounts]
               /\ UNCHANGED <<pending, kind, sermons, idx, dret, prev, rerun>>
       \/ next_candidate(p, db)

\* background_scraper only, os.path.exists(normalized_file_path): whether a
\* file lies at the derived path of a candidate that no row matches.
stale_file_exists(p) ==
    /\ pc[p] = "stale"
    /\ UNCHANGED <<handling, resp>>
    /\ pc' = [pc EXCEPT ![p] = IF file_path(cand(p).audio_url) \in disk
                               THEN "drift" ELSE "dl_exists"]
    /\ UNCHANGED <<schema, db, disk, nextId, pending, kind, sermons, idx,
                   counts, dret, prev, rerun>>

\* background_scraper only, os.remove(normalized_file_path): the file found
\* is removed; os.remove raises and the candidate is skipped when the file
\* cannot be removed, or when it is there no longer (another pass has removed
\* it since os.path.exists).
remove_stale(p) ==
    /\ pc[p] = "drift"
    /\ UNCHANGED <<handling, resp>>
    /\ UNCHANGED <<schema, db, nextId>>
    /\ LET f == file_path(cand(p).audio_url) IN
       \/ /\ f \in disk
          /\ disk' = disk \ {f}
          /\ pc' = [pc EXCEPT ![p] = "dl_exists"]
          /\ UNCHANGED <<pending, kind, sermons, idx, counts, dret, prev,
                         rerun>>
       \/ /\ UNCHANGED disk
          /\ next_candidate(p, db)

\* Mutant: the file is requested whether or not it exists.
download_audio_exists_refetch(p) ==
    /\ pc[p] = "dl_exists"
    /\ UNCHANGED <<handling, resp>>
    /\ pc' = [pc EXCEPT ![p] = "dl_get"]
    /\ UNCHANGED <<schema, db, disk, nextId, pending, kind, sermons, idx,
                   counts, dret, prev, rerun>>

\* download_audio, os.path.exists(file_path): an existing file is returned
\* as it is.
download_audio_exists(p) ==
    /\ pc[p] = "dl_exists"
    /\ UNCHANGED <<handling, resp>>
    /\ LET f == file_path(cand(p).audio_url) IN
       IF f \in disk
       THEN /\ dret' = [dret EXCEPT ![p] = "existing"]
            /\ pc' = [pc EXCEPT ![p] = "insert"]
       ELSE /\ dret' = dret
            /\ pc' = [pc EXCEPT ![p] = "dl_get"]
    /\ UNCHANGED <<schema, db, disk, nextId, pending, kind, sermons, idx,
                   counts, prev, rerun>>

\* Mutant: a failed request returns from process_sermons.
download_audio_get_return(p) ==
    /\ pc[p] = "dl_get"
    /\ UNCHANGED <<handling, resp>>
    /\ UNCHANGED <<schema, db, nextId>>
    /\ LET f == file_path(cand(p).audio_url) IN
       \/ /\ UNCHANGED <<disk, counts, dret>>
          /\ end_pass(p, db)
       \/ /\ disk' = disk \cup {f}
          /\ pc' = [pc EXCEPT ![p] = "dl_write"]
          /\ UNCHANGED <<pending, kind, sermons, idx, counts, dret, prev,
                         rerun>>

\* Mutant: a failed request falls through to the INSERT.
download_audio_get_fallthrough(p) ==
    /\ pc[p] = "dl_get"
    /\ UNCHANGED <<handling, resp>>
    /\ UNCHANGED <<schema, db, nextId>>
    /\ LET f == file_path(cand(p).audio_url) IN
       \/ /\ pc' = [pc EXCEPT ![p] = "insert"]
          /\ UNCHANGED <<disk, pending, kind, sermons, idx, counts, dret,
                         prev, rerun>>
       \/ /\ disk' = disk \cup {f}
          /\ pc' = [pc EXCEPT ![p] = "dl_write"]
          /\ UNCHANGED <<pending, kind, sermons, idx, counts, dret, prev,
                         rerun>>

\* download_audio, requests.get and open(file_path, "wb"): the request
\* raises or answers another status than 200 (None is returned, no file is
\* touched), or the file is created empty.
download_audio_get(p) ==
    /\ pc[p] = "dl_get"
    /\ UNCHANGED <<handling, resp>>
    /\ UNCHANGED <<schema, db, nextId>>
    /\ LET f == file_path(cand(p).audio_url) IN
       \/ /\ UNCHANGED disk
          /\ next_candidate(p, db)
       \/ /\ disk' = disk \cup {f}
          /\ pc' = [pc EXCEPT ![p] = "dl_write"]
          /\ UNCHANGED <<pending, kind, sermons, idx, counts, dret, prev,
                         rerun>>

\* download_audio, the chunk loop: all chunks are written and the path is
\* returned, or iter_content raises, None is returned and what was written
\* stays. A file unlinked meanwhile stays unlinked: the writes go to the
\* open descriptor.
download_audio_write(p) ==
    /\ pc[p] = "dl_write"
    /\ UNCHANGED <<handling, resp>>
    /\ UNCHANGED <<schema, db, nextId>>
    /\ LET f == file_path(cand(p).audio_url) IN
       \/ /\ UNCHANGED disk
          /\ dret' = [dret EXCEPT ![p] = "downloaded"]
          /\ pc' = [pc EXCEPT ![p] = "insert"]
          /\ UNCHANGED <<pending, kind, sermons, idx, counts, prev, rerun>>
       \/ /\ UNCHANGED disk
          /\ next_candidate(p, db)

\* Mutant: a UNIQUE violation is not caught in the loop and ends the pass.
insert_sermon_raise(p) ==
    /\ pc[p] = "insert"
    /\ UNCHANGED <<handling, resp>>
    /\ UNCHANGED <<schema, disk>>
    /\ \E t \in 0..MaxClock :
        LET rec == new_record(cand(p), file_path(cand(p).audio_url), t)
            own == uncommitted(p)
        IN  IF \/ unique_violation(rec)
               \/ pending_violation(p, rec)
               \/ not_null_violation(rec)
            THEN /\ UNCHANGED <<db, nextId, counts>>
                 /\ dret' = [dret EXCEPT ![p] = "none"]
                 /\ end_pass(p, db)
            ELSE \/ /\ pending = own
                    /\ db' = db \cup own \cup {rec}
                    /\ nextId' = nextId + Cardinality(own) + 1
                    /\ next_candidate_with(p, db \cup own \cup {rec}, {})
                 \/ /\ UNCHANGED <<db, nextId>>
                    /\ next_candidate(p, db)
                 \/ /\ kind[p] = "initial"
                    /\ UNCHANGED <<db, nextId>>
                    /\ next_candidate_with(p, db, pending \cup {rec})

\* Mutant: INSERT OR REPLACE, the rows in the way of the new row are deleted.
insert_sermon_replace(p) ==
    /\ pc[p] = "insert"
    /\ UNCHANGED <<handling, resp>>
    /\ UNCHANGED <<schema, disk>>
    /\ \E t \in 0..MaxClock :
        LET rec == new_record(cand(p), file_path(cand(p).audio_url), t)
            own == uncommitted(p)
            kept == {r \in db : /\ r.audio_url # rec.audio_url
                                /\ r.file_path # rec.file_path
                                /\ r.id # rec.id}
        IN  IF not_null_violation(rec)
            THEN /\ UNCHANGED <<db, nextId>>
                 /\ next_candidate(p, db)
            ELSE \/ /\ pending = own
                    /\ db' = kept \cup own \cup {rec}
                    /\ nextId' = nextId + Cardinality(own) + 1
                    /\ next_candidate_with(p, kept \cup own \cup {rec}, {})
                 \/ /\ UNCHANGED <<db, nextId>>
                    /\ next_candidate(p, db)
                 \/ /\ kind[p] = "initial"
                    /\ UNCHANGED <<db, nextId>>
                    /\ next_candidate_with(p, db, pending \cup {rec})

\* time.strftime (whatever the system clock says at that moment), uuid4,
\* INSERT and commit. A UNIQUE or NOT NULL violation raises at the INSERT and
\* writes nothing. Otherwise the row is committed, together with the rows the
\* connection has inserted and not yet committed; or the INSERT raises and
\* nothing is written; or the COMMIT raises (the file is locked): the
\* background scraper rolls back, the initial scraper's except clause just
\* moves on and the row stays in its open transaction. While a connection
\* holds uncommitted rows it holds the write lock, so no other connection
\* commits.
insert_sermon(p) ==
    /\ pc[p] = "insert"
    /\ UNCHANGED <<handling, resp>>
    /\ UNCHANGED <<schema, disk>>
    /\ \E t \in 0..MaxClock :
        LET rec == new_record(cand(p), file_path(cand(p).audio_url), t)
            own == uncommitted(p)
        IN  IF \/ unique_violation(rec)
               \/ pending_violation(p, rec)
               \/ not_null_violation(rec)
            THEN /\ UNCHANGED <<db, nextId>>
                 /\ next_candidate(p, db)
            ELSE \/ /\ pending = own
                    /\ db' = db \cup own \cup {rec}
                    /\ nextId' = nextId + Cardinality(own) + 1
                    /\ next_candidate_with(p, db \cup own \cup {rec}, {})
                 \/ /\ UNCHANGED <<db, nextId>>
                    /\ next_candidate(p, db)
                 \/ /\ kind[p] = "initial"
                    /\ UNCHANGED <<db, nextId>>
                    /\ next_candidate_with(p, db, pending \cup {rec})

Step(p) ==
    \/ select_by_url(p)
    \/ select_by_path(p)
    \/ check_duplicate(p)
    \/ stale_file_exists(p)
    \/ remove_stale(p)
    \/ download_audio_exists(p)
    \/ download_audio_get(p)
    \/ download_audio_write(p)
    \/ insert_sermon(p)

\* The program: both triggers start passes whenever they like.
Next ==
    \/ \E p \in Procs : initialize_database(p)
    \/ \E p \in Procs : process_sermons(p)
    \/ \E p \in Procs : Step(p)

Spec == Init /\ [][Next]_vars

\* Passes that never overlap: a script or a pass starts only while no other
\* is running.
initialize_database_alone(p) ==
    /\ OthersIdle(p)
    /\ initialize_database(p)

process_sermons_alone(p) ==
    /\ OthersIdle(p)
    /\ process_sermons(p)

NextSeq ==
    \/ \E p \in Procs : initialize_database_alone(p)
    \/ \E p \in Procs : process_sermons_alone(p)
    \/ \E p \in Procs : Step(p)

SpecSeq == Init /\ [][NextSeq]_vars

\* ------------------------------------------------------------- the API

\* The ids requests ask for: the first id given out, and one never given out.
SermonIds == {1, NItems + 1}

\* GET /sermons?date=... with the credentials and the date drawn from the
\* given sets: 401 without the key, 400 without a date that
\* parses, 500 when sqlite3 raises, else the selected rows in order.
get_sermons_from(auths, dates) ==
    /\ UNCHANGED <<schema, db, disk, nextId, pending, pc, kind, sermons, idx,
                   counts, dret, prev, rerun, handling>>
    /\ \E auth \in auths, date \in dates :
        IF ~require_api_key(auth)
        THEN resp' = Response("/sermons", auth, date, 0, 401, FALSE, <<>>, NoFile)
        ELSE IF ~date.given \/ ~strptime(date).ok
        THEN resp' = Response("/sermons", auth, date, 0, 400, FALSE, <<>>, NoFile)
        ELSE \/ resp' = Response("/sermons", auth, date, 0, 500, TRUE, <<>>,
                                 NoFile)
             \/ /\ schema
                /\ \E query_date \in {strftime(strptime(date))} :
                   \E rows \in order_by_desc(select_since(db, query_date)) :
                      resp' = Response("/sermons", auth, date, 0, 200, TRUE,
                                       [i \in 1..Len(rows) |->
                                            sermon_data(rows[i])],
                                       NoFile)

get_sermons == get_sermons_from(Credentials, DateParams)

\* GET /download/<sermon_id> with the credentials and the id drawn from the
\* given sets, up to conn.close(): 401 without the key, 500 when sqlite3
\* raises, 404 without a row; else the handler holds the row's file_path and
\* goes on to send_from_directory (one such request at a time).
download_sermon_audio_from(auths, ids) ==
    /\ UNCHANGED <<schema, db, disk, nextId, pending, pc, kind, sermons, idx,
                   counts, dret, prev, rerun>>
    /\ \E auth \in auths, sermon_id \in ids :
        IF ~require_api_key(auth)
        THEN /\ resp' = Response("/download", auth, NoDate, sermon_id, 401,
                                 FALSE, <<>>, NoFile)
             /\ UNCHANGED handling
        ELSE \/ /\ resp' = Response("/download", auth, NoDate, sermon_id, 500,
                                    TRUE, <<>>, NoFile)
                /\ UNCHANGED handling
             \/ /\ schema
                /\ LET rows == {r \in db : r.id = sermon_id} IN
                   IF rows = {}
                   THEN /\ resp' = Response("/download", auth, NoDate,
                                            sermon_id, 404, TRUE, <<>>, NoFile)
                        /\ UNCHANGED handling
                   ELSE LET row == CHOOSE r \in rows : TRUE IN
                        /\ handling = NoRequest
                        /\ handling' = [auth |-> auth, sermon_id |-> sermon_id,
                                        file_path |-> row.file_path]
                        /\ UNCHANGED resp

\* Mutant: the file is removed once it has been served.
send_from_directory_unlink ==
    /\ handling # NoRequest
    /\ UNCHANGED <<schema, db, nextId, pending, pc, kind, sermons, idx, counts,
                   dret, prev, rerun>>
    /\ handling' = NoRequest
    /\ IF handling.file_path \in disk
       THEN /\ resp' = Response("/download", handling.auth, NoDate,
                                handling.sermon_id, 200, TRUE, <<>>,
                                handling.file_path)
            /\ disk' = disk \ {handling.file_path}
       ELSE /\ resp' = Response("/download", handling.auth, NoDate,
                                handling.sermon_id, 500, TRUE, <<>>, NoFile)
            /\ disk' = disk

\* The rest of the download handler, send_from_directory on the file_path
\* read: the file as it lies in the directory now, or 500 when none lies
\* there (its NotFound is caught by the handler's except clause).
send_from_directory ==
    /\ handling # NoRequest
    /\ UNCHANGED <<schema, db, disk, nextId, pending, pc, kind, sermons, idx,
                   counts, dret, prev, rerun>>
    /\ handling' = NoRequest
    /\ IF handling.file_path \in disk
       THEN resp' = Response("/download", handling.auth, NoDate,
                             handling.sermon_id, 200, TRUE, <<>>,
                             handling.file_path)
       ELSE resp' = Response("/download", handling.auth, NoDate,
                             handling.sermon_id, 500, TRUE, <<>>, NoFile)

download_sermon_audio == download_sermon_audio_from(Credentials, SermonIds)

\* The candidates of the feed that offers every item.
AllCandidates == fetch_podcast_feed(SubList(1..NItems, 1))

\* Candidates whose rows the table can hold together: no two of them have
\* the same audio_url or the same derived path (the UNIQUE columns).
Storable(S) ==
    \A i, j \in S :
        i # j => /\ AllCandidates[i].audio_url # AllCandidates[j].audio_url
                 /\ file_path(AllCandidates[i].audio_url)
                        # file_path(AllCandidates[j].audio_url)

\* The rows passes leave when they store the candidates S, candidate i at
\* clock reading t[i]. The ids are uuid4 values, which carry no order: the
\* rows are numbered along the feed.
stored_rows(S, t) ==
    {[new_record(AllCandidates[i], file_path(AllCandidates[i].audio_url), t[i])
        EXCEPT !.id = Cardinality({j \in S : j <= i})] : i \in S}

\* app.py started on whatever the scrapers have left: no table yet, or a
\* table with any set of rows passes can leave (two rows with one title
\* included, each row stored at any clock reading); the directory holds any
\* set of files.
InitApi ==
    /\ schema \in BOOLEAN
    /\ \E S \in SUBSET (1..Len(AllCandidates)) :
        /\ Storable(S)
        /\ ~schema => S = {}
        /\ \E t \in [S -> 0..MaxClock] :
            /\ nextId = Cardinality(S) + 1
            /\ pending = {}
            /\ db = stored_rows(S, t)
    /\ disk \in SUBSET AllPaths
    /\ pc = [p \in Procs |-> "idle"]
    /\ kind = [p \in Procs |-> "background"]
    /\ sermons = [p \in Procs |-> <<>>]
    /\ idx = [p \in Procs |-> 0]
    /\ counts = [p \in Procs |-> NoCounts]
    /\ dret = [p \in Procs |-> "none"]
    /\ prev = NoPass
    /\ rerun = [p \in Procs |-> "no"]
    /\ handling = NoRequest
    /\ resp = NoResp

NextApi ==
    \/ get_sermons
    \/ download_sermon_audio
    \/ send_from_directory

SpecApi == InitApi /\ [][NextApi]_vars

\* ------------------------------------------- the API beside a running pass

\* app.py as one process: the worker thread runs its passes while the Flask
\* routes answer requests, on a database the initial scraper has created.
\* The requests that interleave with the passes come with or without the key,
\* with or without a date, for the first row id.
ServeCredentials == {NoAuth, Auth("reader", API_KEY)}

ServeDates ==
    {NoDate, DateText(<<>>, <<2, 0, 2, 5>>, <<0, 1>>, <<1, 5>>, <<160>>)}

ServeIds == {1}

InitServe ==
    /\ schema = TRUE
    /\ db = {}
    /\ disk = {}
    /\ nextId = 1
    /\ pending = {}
    /\ pc = [p \in Procs |-> "idle"]
    /\ kind = [p \in Procs |-> "background"]
    /\ sermons = [p \in Procs |-> <<>>]
    /\ idx = [p \in Procs |-> 0]
    /\ counts = [p \in Procs |-> NoCounts]
    /\ dret = [p \in Procs |-> "none"]
    /\ prev = NoPass
    /\ rerun = [p \in Procs |-> "no"]
    /\ handling = NoRequest
    /\ resp = NoResp

NextServe ==
    \/ process_sermons("worker")
    \/ Step("worker")
    \/ get_sermons_from(ServeCredentials, ServeDates)
    \/ download_sermon_audio_from(ServeCredentials, ServeIds)
    \/ send_from_directory

SpecServe == InitServe /\ [][NextServe]_vars

\* ------------------------------------------------------ the worker's loop

\* Mutant: the exception of a cycle is not caught and ends the worker thread.
background_worker_error_uncaught ==
    /\ pc["worker"] = "idle"
    /\ pc' = [pc EXCEPT !["worker"] = "stopped"]
    /\ prev' = [kind |-> "failed", list |-> <<>>, settled |-> FALSE]
    /\ UNCHANGED <<schema, db, disk, nextId, pending, kind, sermons, idx,
                   counts, dret, rerun, handling, resp>>

\* A cycle in which the import of background_scraper or
\* get_database_connection raises: the except clause of the loop logs the
\* error and the worker is back at time.sleep (history: prev records the
\* failed cycle).
background_worker_error ==
    /\ pc["worker"] = "idle"
    /\ prev' = [kind |-> "failed", list |-> <<>>, settled |-> FALSE]
    /\ UNCHANGED <<schema, db, disk, nextId, pending, pc, kind, sermons, idx,
                   counts, dret, rerun, handling, resp>>

\* One turn of `while True`: after the sleep either the cycle fails before
\* process_sermons is reached, or process_sermons is called.
background_worker ==
    \/ background_worker_error
    \/ process_sermons("worker")

NextWorker ==
    \/ background_worker
    \/ Step("worker")

\* The steps of a pass that end by themselves: the queries and the commit
\* return or raise within SQLite's busy timeout, the file system calls
\* return. The two steps that wait for the audio server are not among them:
\* requests.get is called without a timeout.
local_step(p) ==
    \/ select_by_url(p)
    \/ select_by_path(p)
    \/ check_duplicate(p)
    \/ stale_file_exists(p)
    \/ remove_stale(p)
    \/ download_audio_exists(p)
    \/ insert_sermon(p)

\* The worker thread keeps being scheduled, so a pass that stands at one of
\* its local steps takes it.
SpecWorker == InitServe /\ [][NextWorker]_vars /\ WF_vars(local_step("worker"))

TypeOK ==
    /\ schema \in BOOLEAN
    /\ resp.status \in {0, 200, 400, 401, 404, 500}
    /\ nextId \in 1..(NItems + 1)
    /\ \A r \in pending : r.id >= nextId
    /\ \A p \in Procs : pc[p] \in {"idle", "imported", "check", "check_path",
                                   "check_title", "stale", "drift",
                                   "dl_exists", "dl_get", "dl_write",
                                   "insert"}
    /\ disk \subseteq AllPaths

\* ------------------------------------------------------------- properties

\* The candidate matches a stored row by one of the three keys.
Matches(c) == AllSettled(db, <<c>>)

\* Trigger p takes the step.
Moved(p) == pc'[p] # pc[p] \/ idx'[p] # idx[p]

\* After the step p is at its next candidate, or its pass has returned after
\* the last one.
Continues(p) ==
    IF idx[p] < Len(sermons[p])
    THEN pc'[p] = "check" /\ idx'[p] = idx[p] + 1 /\ sermons'[p] = sermons[p]
    ELSE pc'[p] = "idle"

\* The triggers whose pass is at a candidate of its list.
Active == {p \in Procs : pc[p] \notin {"idle", "imported"}}

\* The positions of the duplicate check: before each of its three SELECTs.
CheckSteps == {"check", "check_path", "check_title"}

\* C1. Uniqueness: no two stored rows share audio_url, none share file_path.
C1_Uniqueness ==
    \A r1, r2 \in db :
        (r1.audio_url = r2.audio_url \/ r1.file_path = r2.file_path) => r1 = r2

\* A pass is about to insert a row whose file_path another URL's row holds.
C1_Witness ==
    \E p \in Procs :
        /\ pc[p] = "insert"
        /\ \E r \in db : /\ r.file_path = file_path(cand(p).audio_url)
                         /\ r.audio_url # cand(p).audio_url

\* C2. No orphan rows: whenever no pass is running, every stored row's
\* file_path holds a file.
C2_NoOrphanRows ==
    (Active = {}) => \A r \in db : r.file_path \in disk

\* C3, as claimed. A pass over the same list as the pass just before it skips
\* every candidate as a duplicate: it changes neither the store nor the
\* directory and attempts no download.
C3_Idempotence ==
    [][\A p \in Procs :
          (rerun[p] # "no" /\ Moved(p)) =>
              /\ db' = db
              /\ disk' = disk
              /\ pc'[p] \in CheckSteps \cup {"idle"}]_vars

\* C3, amended. The same, for a pass that follows a pass which left every
\* candidate of the list matching a stored row.
C3_IdempotenceSettled ==
    [][\A p \in Procs :
          (rerun[p] = "settled" /\ Moved(p)) =>
              /\ db' = db
              /\ disk' = disk
              /\ pc'[p] \in CheckSteps \cup {"idle"}]_vars

\* The second run of a list of at least two candidates is at its last one.
C3_Witness ==
    \E p \in Procs :
        /\ rerun[p] = "settled"
        /\ pc[p] = "check"
        /\ idx[p] = Len(sermons[p])
        /\ idx[p] >= 2

\* C4. Dedup OR-semantics: a candidate that matches a stored row by title
\* alone when the test is made (the third SELECT and the `if`) is skipped: the
\* pass goes on to the next candidate and the store is left as it is.
C4_DedupOr ==
    [][\A p \in Procs :
          (/\ pc[p] = "check_title"
           /\ exists_by_title(cand(p))
           /\ ~exists_by_url(cand(p))
           /\ ~exists_by_path(cand(p))
           /\ Moved(p)) =>
              /\ db' = db
              /\ Continues(p)]_vars

\* A pass has gone past a candidate that matches by title alone.
C4_Witness ==
    \E p \in Procs :
        /\ pc[p] = "check"
        /\ idx[p] >= 2
        /\ LET c == sermons[p][idx[p] - 1] IN
            /\ \E r \in db : r.title = c.title
            /\ \A r \in db : /\ r.audio_url # c.audio_url
                             /\ r.file_path # file_path(c.audio_url)

\* C5. A duplicate skip has no side effects: the three queries of the
\* duplicate check leave the store and the directory as they are, and the
\* step that judges a candidate a duplicate (one of the three counts is
\* positive) goes on to the next candidate.
C5_SkipNoSideEffects ==
    [][\A p \in Procs :
          /\ (pc[p] \in CheckSteps /\ Moved(p)) =>
                /\ db' = db
                /\ disk' = disk
                /\ nextId' = nextId
          /\ (/\ pc[p] = "check_title"
              /\ \/ counts[p].url
                 \/ counts[p].path
                 \/ exists_by_title(cand(p))
              /\ Moved(p)) => Continues(p)]_vars

\* A pass has completed in which a candidate matched by title alone while a
\* file that no row references lay at its derived path; the file is there.
C5_Witness ==
    /\ Active = {}
    /\ \E i \in 1..Len(prev.list) :
        LET c == prev.list[i] IN
            /\ \E r \in db : r.title = c.title
            /\ \A r \in db : /\ r.audio_url # c.audio_url
                             /\ r.file_path # file_path(c.audio_url)
            /\ file_path(c.audio_url) \in disk

\* C6. Drift reconciliation: a pass that is about to insert a row for a path
\* that no stored row references has downloaded the file itself; it did not
\* take the file it found on disk.
C6_DriftReconciliation ==
    \A p \in Procs :
        (pc[p] = "insert" /\ ~exists_by_path(cand(p))) => dret[p] = "downloaded"

\* The store holds the row of p's current candidate after the step.
Recorded(p) ==
    \E r \in db' : /\ r.audio_url = cand(p).audio_url
                   /\ r.title = cand(p).title
                   /\ r.file_path = file_path(cand(p).audio_url)

\* Whatever ends the handling of a candidate, the pass goes on to the next
\* candidate of its list and returns only after the last one; a step that
\* changes the store keeps every row and adds the current candidate's row
\* (the initial scraper commits with it the rows it had inserted and not
\* committed).
GoesOn(p) ==
    (pc[p] \notin {"idle", "imported"}
        /\ (pc'[p] = "idle" \/ idx'[p] # idx[p])) =>
        /\ Continues(p)
        /\ db' # db =>
              \E r \in db' \ db :
                  /\ db' = db \cup uncommitted(p) \cup {r}
                  /\ r.audio_url = cand(p).audio_url
                  /\ r.title = cand(p).title

\* C7, as claimed. Isolate-and-continue: a failure while a candidate is
\* processed never ends the pass early, every later candidate is examined,
\* and each later candidate that is not a duplicate and whose download
\* succeeds (the pass has come to its INSERT) gets a record. The second part
\* is stated for the passes in which the failure of an earlier candidate
\* shows in the store: no stored row matches that candidate.
C7_IsolateAndContinue ==
    [][\A p \in Procs :
          /\ GoesOn(p)
          /\ (/\ pc[p] = "insert"
              /\ \E i \in 1..(idx[p] - 1) : ~Matches(sermons[p][i])
              /\ Moved(p)) => Recorded(p)]_vars

\* C7, amended. A failure never ends the pass early and every later candidate
\* is examined; for every candidate that is not a duplicate and whose
\* download succeeds, whatever has failed before it, the INSERT is executed:
\* unless a row with its audio_url or file_path has been stored meanwhile or
\* another connection holds the write lock, the step that records it is
\* possible, and the only other outcome is that its own INSERT or COMMIT
\* raises, which leaves the store as it is and lets the pass go on.
C7_IsolateAndContinueOwnInsert ==
    /\ [][\A p \in Procs :
             /\ GoesOn(p)
             /\ (pc[p] = "insert" /\ Moved(p)) =>
                   (Recorded(p) \/ db' = db)]_vars
    /\ [](\A p \in Procs :
             (/\ pc[p] = "insert"
              /\ cand(p).title # None
              /\ \A r \in db \cup uncommitted(p) :
                    /\ r.audio_url # cand(p).audio_url
                    /\ r.file_path # file_path(cand(p).audio_url)
              /\ pending = uncommitted(p))
                 => ENABLED (insert_sermon(p) /\ Recorded(p)))

\* A pass has returned in which a candidate failed (no row matches it) and a
\* later candidate of the list has its record, the only row ever stored;
\* the pass was one of background_scraper.py.
C7_Witness ==
    /\ Active = {}
    /\ prev.kind = "background"
    /\ nextId = 2
    /\ \E i, j \in 1..Len(prev.list) :
          /\ i < j
          /\ ~Matches(prev.list[i])
          /\ db = {r \in db : /\ r.audio_url = prev.list[j].audio_url
                              /\ r.title = prev.list[j].title}
          /\ db # {}

\* C8. No row for a failed download: the store changes only by a pass whose
\* download_audio call returned a path, and the step that ends a failed
\* download leaves the store as it is.
C8_NoRowForFailedDownload ==
    [][/\ db' # db =>
            \E p \in Procs : /\ pc[p] = "insert"
                             /\ dret[p] \in {"existing", "downloaded"}
                             /\ Moved(p)
       /\ \A p \in Procs :
            (pc[p] \in {"dl_get", "dl_write"} /\ pc'[p] \in {"check", "idle"})
                => db' = db]_vars

\* A pass is past a candidate whose request failed: no row matches it and no
\* file lies at its path.
C8_Witness ==
    \E p \in Procs :
        /\ schema
        /\ pc[p] = "check"
        /\ idx[p] >= 2
        /\ ~Matches(sermons[p][idx[p] - 1])
        /\ file_path(sermons[p][idx[p] - 1].audio_url) \notin disk

\* C9. Single pass in flight: at most one pass is running.
C9_SinglePassInFlight == Cardinality(Active) <= 1

\* C10. A check-then-insert race is caught by the store: a pass that reaches
\* the INSERT when a row with its candidate's audio_url or file_path is
\* already stored leaves the store as it is and goes on to its next candidate.
C10_RaceCaughtByStore ==
    [][\A p \in Procs :
          (/\ pc[p] = "insert"
           /\ \E r \in db : \/ r.audio_url = cand(p).audio_url
                            \/ r.file_path = file_path(cand(p).audio_url)
           /\ Moved(p)) =>
              /\ db' = db
              /\ Continues(p)
              /\ Cardinality({r \in db' :
                    r.audio_url = cand(p).audio_url}) <= 1
              /\ Cardinality({r \in db' :
                    r.file_path = file_path(cand(p).audio_url)}) = 1]_vars

\* Both passes went past the duplicate check for one candidate, one has
\* stored its row, and the other, with candidates left, is at the INSERT.
C10_Witness ==
    \E p \in Procs :
        /\ pc[p] = "insert"
        /\ idx[p] < Len(sermons[p])
        /\ \E r \in db : r.audio_url = cand(p).audio_url

\* The path derived from the current candidate of trigger p.
cand_path(p) == file_path(cand(p).audio_url)

\* C11. A failed download leaves no partial file: when download_audio
\* returns None, after the request or during the transfer, no file is at the
\* candidate's derived path (with passes run one at a time none was there
\* when the request was made).
C11_NoPartialFile ==
    [][\A p \in Procs :
          (pc[p] \in {"dl_get", "dl_write"} /\ pc'[p] \in {"check", "idle"})
              => cand_path(p) \notin disk']_vars

\* C12. Files referenced by a row are immutable: a pass deletes a file
\* (os.remove) or truncates it (open(file_path, "wb")) only at a path that no
\* stored row references.
C12_ReferencedFilesImmutable ==
    [][\A p \in Procs :
          (\/ /\ pc[p] = "drift"
              /\ cand_path(p) \in disk
              /\ cand_path(p) \notin disk'
           \/ /\ pc[p] = "dl_get"
              /\ pc'[p] = "dl_write"
              /\ cand_path(p) \in disk)
              => \A r \in db : r.file_path # cand_path(p)]_vars

\* C13. No orphan file after a pass: when a pass has completed, every file at
\* the derived path of one of its candidates is referenced by a stored row.
C13_NoOrphanFileAfterPass ==
    (Active = {}) =>
        \A i \in 1..Len(prev.list) :
            file_path(prev.list[i].audio_url) \in disk
                => \E r \in db : r.file_path = file_path(prev.list[i].audio_url)

\* C14. Rows are create-only: every step keeps every stored row as it is,
\* field by field, and no two rows have the same id.
C14_CreateOnly ==
    [][/\ db \subseteq db'
       /\ \A r1, r2 \in db' : r1.id = r2.id => r1 = r2]_vars

\* Two rows are stored: the first was kept while the second was inserted.
C14_Witness == Cardinality(db) >= 2

\* C15. Store unavailability is fatal to the pass: when the duplicate-check
\* query raises, process_sermons returns at once.
C15_StoreUnavailableFatal ==
    [][\A p \in Procs :
          (pc[p] = "check" /\ ~schema /\ Moved(p)) => pc'[p] = "idle"]_vars

\* C16. Source unavailability changes nothing: the step in which the feed
\* cannot be fetched or parsed (prev records it; the start of
\* sermon_scraper.py, which leaves prev as it is, is not that step) leaves the
\* table and the directory as they are and starts no candidate: the trigger
\* is back at rest.
C16_SourceUnavailable ==
    [][(/\ prev'.kind = "unavailable"
        /\ \A p \in Procs : pc'[p] = "imported" => pc[p] = "imported") =>
            /\ db' = db
            /\ disk' = disk
            /\ idx' = idx
            /\ sermons' = sermons
            /\ \A p \in Procs : pc'[p] \in {pc[p], "idle"}]_vars

\* The source was unavailable to a pass that found rows stored and files on
\* disk.
C16_Witness ==
    /\ prev.kind = "unavailable"
    /\ db # {}
    /\ disk # {}

\* C17. Placeholders: no stored row has an absent title or empty categories.
C17_Placeholders ==
    \A r \in db : r.title # NoElem /\ r.categories # ""

\* C18. Fetcher skip-if-exists: when a file is at the derived path,
\* download_audio returns that path at once: no request is made, and the
\* directory and the table are left as they are.
C18_SkipIfExists ==
    [][\A p \in Procs :
          (pc[p] = "dl_exists" /\ cand_path(p) \in disk /\ Moved(p)) =>
              /\ pc'[p] = "insert"
              /\ dret'[p] = "existing"
              /\ disk' = disk
              /\ db' = db]_vars

\* download_audio has returned the file that was on disk for a URL with a
\* query string.
C18_Witness ==
    \E p \in Procs :
        /\ pc[p] = "insert"
        /\ dret[p] = "existing"
        /\ cand(p).audio_url.query # ""
        /\ cand_path(p) \in disk

\* The fields of a time, most significant first.
time_key(dt) == <<dt.y, dt.m, dt.d, dt.H, dt.M, dt.S>>

\* Time a is not before time b.
NotBefore(a, b) == TextGE(time_key(a), time_key(b))

\* C19. API date filter: a 200 response to GET /sermons with date D lists
\* exactly the rows fetched at or after D 00:00:00, latest first.
C19_DateFilter ==
    (resp.route = "/sermons" /\ resp.status = 200) =>
        /\ {resp.body[i].id : i \in 1..Len(resp.body)} =
              {r.id : r \in {x \in db : NotBefore(Clock(x.fetched_date),
                                                  strptime(resp.date))}}
        /\ \A i, j \in 1..Len(resp.body) :
              i < j => \E ri, rj \in db :
                          /\ ri.id = resp.body[i].id
                          /\ rj.id = resp.body[j].id
                          /\ NotBefore(Clock(ri.fetched_date),
                                       Clock(rj.fetched_date))

\* C20. API authentication: a request without the key as its password is
\* answered 401, with no query made and no file served; a request with the
\* key as its password is not answered 401.
C20_Authentication ==
    (resp.route # "none") =>
        IF resp.auth.present /\ resp.auth.password = API_KEY
        THEN resp.status # 401
        ELSE /\ resp.status = 401
             /\ ~resp.queried
             /\ resp.body = <<>>
             /\ resp.served = NoFile

\* A request for the file of a stored row, with the key as the username and
\* another password, was answered 401.
C20_Witness ==
    /\ resp.route = "/download"
    /\ resp.auth = Auth(API_KEY, "guess")
    /\ resp.status = 401
    /\ \E r \in db : r.id = resp.sermon_id /\ r.file_path \in disk

\* C21: the API path only reads. A step of a request handler (it replaces
\* the last response, or takes up or ends a download request) leaves the
\* store's record set and the set of files on disk as they were, whatever
\* the status it answers (200, 400, 401, 404 or 500) and also while a pass of
\* the worker is running; and every step that changes the record set or the
\* files is a step of a running pass.
C21_ApiOnlyReads ==
    [][ /\ (resp' # resp \/ handling' # handling) =>
               (db' = db /\ disk' = disk)
        /\ (db' # db \/ disk' # disk) =>
               \E p \in Procs : pc[p] # "idle" /\ Moved(p) ]_vars

\* The file of a stored row has been served (200) while the worker's pass was
\* in the middle of a download, and the row and the file are still there.
C21_Witness ==
    /\ resp.route = "/download"
    /\ resp.status = 200
    /\ pc["worker"] = "dl_write"
    /\ resp.served \in disk
    /\ \E r \in db : r.id = resp.sermon_id /\ r.file_path = resp.served

\* A candidate earlier than p's current one in p's list has the same title or
\* the same derived file path.
EarlierTwin(p) ==
    \E i \in 1..(idx[p] - 1) :
        \/ sermons[p][i].title = cand(p).title
        \/ file_path(sermons[p][i].audio_url) = file_path(cand(p).audio_url)

\* C22 as stated: with non-overlapping passes from the empty store, of two
\* candidates of one list with the same title (or the same derived file path)
\* only the first is stored: the insert step of the later one never adds a
\* row.
C22_OnlyFirstStored ==
    [][\A p \in Procs :
          (pc[p] = "insert" /\ EarlierTwin(p) /\ Moved(p)) => db' = db]_vars

\* C22, amended: with non-overlapping passes from the empty store, no two
\* stored rows ever share a title and none share a file path, so of the
\* candidates of one list with the same title (or the same derived file path)
\* at most one is stored: the first of them whose download and insert
\* succeed.
C22_TitleUniqueness ==
    \A r1, r2 \in db :
        (r1.title = r2.title \/ r1.file_path = r2.file_path) => r1 = r2

\* A pass has returned whose list held two candidates with the same title and
\* different file paths; the first is stored and the second is not.
C22_Witness ==
    /\ Active = {}
    /\ \E i, j \in 1..Len(prev.list) :
        /\ i < j
        /\ prev.list[i].title = prev.list[j].title
        /\ file_path(prev.list[i].audio_url) # file_path(prev.list[j].audio_url)
        /\ \E r \in db : r.audio_url = prev.list[i].audio_url
        /\ \A r \in db : r.audio_url # prev.list[j].audio_url

\* C23: the background worker never stops and its cycles are strictly
\* sequential. A cycle that fails (the import or the connection raises) leaves
\* the worker at its sleep with the next cycle ready to start; a pass of the
\* worker begins only from the sleep, when its previous process_sermons call
\* has returned and left no candidate list behind; and as long as the audio
\* server answers or refuses every request, the worker is again and again
\* back at its sleep, whatever fails inside process_sermons.
C23_WorkerNeverStops ==
    /\ [](prev.kind = "failed" =>
              pc["worker"] = "idle" /\ ENABLED background_worker)
    /\ [][(idx'["worker"] = 1 /\ idx["worker"] # 1) =>
              /\ pc["worker"] = "idle"
              /\ sermons["worker"] = <<>>
              /\ pc'["worker"] = "check"]_vars
    /\ (WF_vars(download_audio_get("worker"))
            /\ WF_vars(download_audio_write("worker")))
        => []<>(pc["worker"] = "idle" /\ ENABLED background_worker)

\* A cycle of the worker has failed after earlier cycles had stored rows and
\* files, and the worker is at its sleep.
C23_Witness ==
    /\ prev.kind = "failed"
    /\ pc["worker"] = "idle"
    /\ db # {}
    /\ disk # {}

====
